---------------------------- MODULE Spec2Model ----------------------------
(***************************************************************************)
(* Black-Scholes option pricing dashboard (src/dashboard.py).              *)
(*                                                                         *)
(* The module models the two core functions black_scholes and              *)
(* calculate_greeks and the Dash callback update_dashboard.                *)
(*                                                                         *)
(* Numbers.  A number is a record [tag, n].  tag says what kind of Python  *)
(* object it is: "py" is a plain int/float as decoded from the browser's   *)
(* JSON, "np" is a numpy float64 (an element of np.linspace), "None" is    *)
(* Python's None.  n is the exact value in units of 1/Den, so that the     *)
(* 50 samples of np.linspace(0.5*x, 1.5*x, 50) are integers.  Rounding of  *)
(* IEEE doubles is not modelled: arithmetic on n is exact.                 *)
(*                                                                         *)
(* Results of the closed-form formulas (norm.cdf, norm.pdf, np.exp,        *)
(* np.log) are transcendental; a result is kept as the term that produced  *)
(* it: which formula, applied to which arguments, with d1 finite or not.   *)
(***************************************************************************)
EXTENDS Integers, Sequences, FiniteSets, TLC

VARIABLES
    req,      \* req[q]: the frame (arguments and locals) of update_dashboard on worker q
    globals,  \* the module-level names of dashboard.py that hold data
    direct    \* the latest direct call of a core function: function, arguments, result

vars == <<req, globals, direct>>

(***************************************************************************)
(* Program constants                                                       *)
(***************************************************************************)
NumSamples == 50

Den == 2 * (NumSamples - 1)

Threads == {1, 2}

(***************************************************************************)
(* Bounds of the model                                                     *)
(***************************************************************************)
\* the form's numbers range over the multiples -Range..Range of a unit
Range == 1

(***************************************************************************)
(* Python values                                                           *)
(***************************************************************************)
None == [tag |-> "None", n |-> 0]

Py(x) == [tag |-> "py", n |-> x * Den]

Np(m) == [tag |-> "np", n |-> m]

Unset == [tag |-> "unset"]

Raise(e) == [tag |-> "raise", exc |-> e]

\* x * c for a float literal c = cNum/2 (0.5 or 1.5): a plain number stays plain
TimesHalves(x, cNum) == [tag |-> x.tag, n |-> (x.n * cNum) \div 2]

(***************************************************************************)
(* d1 = (np.log(S / K) + (r + 0.5 * sigma**2) * T) / (sigma * np.sqrt(T))  *)
(*                                                                         *)
(* S / K on two plain numbers is Python's division, which raises           *)
(* ZeroDivisionError when K is 0.  When S is a numpy float64 the division  *)
(* is numpy's, which yields inf or nan (with a warning) and does not       *)
(* raise.  np.log, np.sqrt and every later operation are numpy's.          *)
(***************************************************************************)
DivRaises(S, K) == S.tag = "py" /\ K.tag = "py" /\ K.n = 0

\* d1 is a finite double iff S/K > 0 (the log is finite), T > 0 (the root is
\* defined and not zero) and sigma # 0 (the divisor is not zero)
D1Finite(S, K, T, sigma) ==
    /\ \/ (S.n > 0 /\ K.n > 0)
       \/ (S.n < 0 /\ K.n < 0)
    /\ T.n > 0
    /\ sigma.n # 0

\* the float64 a closed-form formula f yields on these arguments
Formula(f, S, K, T, r, sigma) ==
    [tag |-> "np", f |-> f, S |-> S.n, K |-> K.n, T |-> T.n, r |-> r.n,
     sigma |-> sigma.n, finite_d1 |-> D1Finite(S, K, T, sigma)]

\* Variant: an unknown option type is priced as a put instead of being refused
black_scholes_default(S, K, T, r, sigma, option_type) ==
    IF DivRaises(S, K) THEN Raise("ZeroDivisionError")
    ELSE IF option_type = "call" THEN Formula("call", S, K, T, r, sigma)
    ELSE Formula("put", S, K, T, r, sigma)

\* Variant: the inputs are validated, a non-positive S, K, T or sigma is refused
black_scholes_validating(S, K, T, r, sigma, option_type) ==
    IF S.n <= 0 \/ K.n <= 0 \/ T.n <= 0 \/ sigma.n <= 0
    THEN Raise("ValueError")
    ELSE IF option_type = "call" THEN Formula("call", S, K, T, r, sigma)
    ELSE IF option_type = "put" THEN Formula("put", S, K, T, r, sigma)
    ELSE Raise("ValueError")

black_scholes(S, K, T, r, sigma, option_type) ==
    IF DivRaises(S, K) THEN Raise("ZeroDivisionError")
    ELSE IF option_type = "call" THEN Formula("call", S, K, T, r, sigma)
    ELSE IF option_type = "put" THEN Formula("put", S, K, T, r, sigma)
    ELSE Raise("ValueError")

GreekNames ==
    <<"Delta Call", "Delta Put", "Gamma", "Vega",
      "Theta Call", "Theta Put", "Rho Call", "Rho Put">>

\* the returned dict, as its items in insertion order
calculate_greeks(S, K, T, r, sigma) ==
    IF DivRaises(S, K) THEN Raise("ZeroDivisionError")
    ELSE [tag |-> "dict",
          items |-> [k \in 1..Len(GreekNames) |->
                       [key |-> GreekNames[k],
                        value |-> Formula(GreekNames[k], S, K, T, r, sigma)]]]

\* Variant: np.linspace(start, stop, num, endpoint=False)
linspace_no_endpoint(start, stop, num) ==
    LET step == (stop.n - start.n) \div num
    IN  [i \in 1..num |-> Np(start.n + (i - 1) * step)]

\* np.linspace(start, stop, num): start + i*step, the last sample set to stop
linspace(start, stop, num) ==
    LET step == (stop.n - start.n) \div (num - 1)
    IN  [i \in 1..num |->
           IF i = num THEN Np(stop.n) ELSE Np(start.n + (i - 1) * step)]

\* f"{value:.<digits>f}"
Format(value, digits) == [tag |-> "str", digits |-> digits, of |-> value]

\* a string literal
Text(t) == [tag |-> "str", text |-> t]

\* return "Please input all values.", "", {}
Placeholder ==
    [tag |-> "returned", price |-> Text("Please input all values."),
     greeks |-> Text(""), figure |-> [tag |-> "empty"]]

(***************************************************************************)
(* The inputs the browser can send.  Numbers are in the units of the form: *)
(* S and K in currency, T in years, r and sigma in hundredths.  A cleared  *)
(* field arrives as None; the option-type dropdown can be cleared too, and *)
(* a request can carry any string as option type.                          *)
(***************************************************************************)
NoType == "None"

Base ==
    [S |-> Py(100), K |-> Py(100), T |-> Py(1), r |-> Py(5), sigma |-> Py(20),
     option_type |-> "call"]

Mults == (-Range)..Range

SVals == {None} \cup {Py(100 * m) : m \in Mults}
KVals == {None} \cup {Py(100 * m) : m \in Mults}
TVals == {None} \cup {Py(m) : m \in Mults}
rVals == {None} \cup {Py(5 * m) : m \in Mults}
sigmaVals == {None} \cup {Py(20 * m) : m \in Mults}
TypeVals == {"call", "put", "straddle", NoType}

AllInputs ==
    [S : SVals, K : KVals, T : TVals, r : rVals, sigma : sigmaVals,
     option_type : TypeVals]

Numerics(a) == <<a.S, a.K, a.T, a.r, a.sigma>>

\* None in [S, K, T, r, sigma]
NoneIn(xs) == \E k \in 1..Len(xs) : xs[k].tag = "None"

\* The form's defaults with one field changed
OneChanged ==
    {[Base EXCEPT !.S = v] : v \in SVals}
      \cup {[Base EXCEPT !.K = v] : v \in KVals}
      \cup {[Base EXCEPT !.T = v] : v \in TVals}
      \cup {[Base EXCEPT !.r = v] : v \in rVals}
      \cup {[Base EXCEPT !.sigma = v] : v \in sigmaVals}
      \cup {[Base EXCEPT !.option_type = v] : v \in TypeVals}

\* Every input that ends before the surface sweep (a missing number, K = 0,
\* an unknown option type), and of the inputs that run the 2,500-cell sweep
\* the form's defaults with one field changed.
Inputs ==
    {a \in AllInputs :
        \/ NoneIn(Numerics(a))
        \/ a.K.n = 0
        \/ a.option_type \notin {"call", "put"}}
      \cup OneChanged

\* The requests of the two-worker specification
ParInputs ==
    {Base,
     [Base EXCEPT !.option_type = "put"],
     [Base EXCEPT !.r = Py(0)],
     [Base EXCEPT !.K = Py(0)],
     [Base EXCEPT !.option_type = NoType],
     [Base EXCEPT !.sigma = None]}

\* The arguments of direct calls of the core functions: plain numbers, and a
\* numpy float64 spot as the surface sweep passes it
CoreArgs ==
    [S : (SVals \ {None}) \cup {Np(v.n) : v \in SVals \ {None}},
     K : KVals \ {None}, T : TVals \ {None}, r : rVals \ {None},
     sigma : sigmaVals \ {None}, option_type : TypeVals]

(***************************************************************************)
(* update_dashboard: one frame per worker                                  *)
(***************************************************************************)
IdleFrame ==
    [pc |-> "idle",
     S |-> None, K |-> None, T |-> None, r |-> None, sigma |-> None,
     option_type |-> NoType,
     option_price |-> Unset, greeks |-> Unset,
     spot_prices |-> <<>>, volatilities |-> <<>>,
     heatmap_data |-> <<>>, row |-> <<>>, i |-> 0, j |-> 0,
     out |-> Unset, err |-> Unset,
     n_price |-> 0, n_greeks |-> 0, n_cells |-> 0]

\* the callback is invoked with the six input values
Enter(a) ==
    [IdleFrame EXCEPT !.pc = "check", !.S = a.S, !.K = a.K, !.T = a.T,
                      !.r = a.r, !.sigma = a.sigma,
                      !.option_type = a.option_type]

\* if None in [S, K, T, r, sigma]: return "Please input all values.", "", {}
CheckStep(l) ==
    IF NoneIn(<<l.S, l.K, l.T, l.r, l.sigma>>)
    THEN [l EXCEPT !.pc = "done", !.out = Placeholder]
    ELSE [l EXCEPT !.pc = "price"]

\* option_price = black_scholes(S, K, T, r, sigma, option_type)
PriceStep(l) ==
    LET res == black_scholes(l.S, l.K, l.T, l.r, l.sigma, l.option_type)
    IN  IF res.tag = "raise"
        THEN [l EXCEPT !.pc = "raised", !.err = res, !.n_price = @ + 1]
        ELSE [l EXCEPT !.pc = "greeks", !.option_price = res,
                       !.n_price = @ + 1]

\* Variant: only the Greeks of the requested option type are kept
GreeksStepTyped(l) ==
    LET res == calculate_greeks(l.S, l.K, l.T, l.r, l.sigma)
        keep == IF l.option_type = "call" THEN <<1, 3, 4, 5, 7>>
                ELSE <<2, 3, 4, 6, 8>>
    IN  IF res.tag = "raise"
        THEN [l EXCEPT !.pc = "raised", !.err = res, !.n_greeks = @ + 1]
        ELSE [l EXCEPT !.pc = "axes", !.n_greeks = @ + 1,
                       !.greeks =
                           [tag |-> "dict",
                            items |-> [k \in 1..5 |-> res.items[keep[k]]]]]

\* greeks = calculate_greeks(S, K, T, r, sigma)
GreeksStep(l) ==
    LET res == calculate_greeks(l.S, l.K, l.T, l.r, l.sigma)
    IN  IF res.tag = "raise"
        THEN [l EXCEPT !.pc = "raised", !.err = res, !.n_greeks = @ + 1]
        ELSE [l EXCEPT !.pc = "axes", !.greeks = res, !.n_greeks = @ + 1]

\* spot_prices = np.linspace(S * 0.5, S * 1.5, 50)
\* volatilities = np.linspace(sigma * 0.5, sigma * 1.5, 50)
AxesStep(l) ==
    [l EXCEPT !.pc = "sweep",
              !.spot_prices =
                  linspace(TimesHalves(l.S, 1), TimesHalves(l.S, 3), NumSamples),
              !.volatilities =
                  linspace(TimesHalves(l.sigma, 1), TimesHalves(l.sigma, 3),
                           NumSamples),
              !.i = 1, !.j = 1]

\* Variant: the two loops exchanged, spot in the inner loop
CellStepTransposed(l) ==
    LET res == black_scholes(l.spot_prices[l.j], l.K, l.T, l.r,
                             l.volatilities[l.i], l.option_type)
        row == Append(l.row, res)
    IN  IF res.tag = "raise"
        THEN [l EXCEPT !.pc = "raised", !.err = res, !.n_cells = @ + 1]
        ELSE IF l.j < Len(l.spot_prices)
        THEN [l EXCEPT !.row = row, !.j = @ + 1, !.n_cells = @ + 1]
        ELSE IF l.i < Len(l.volatilities)
        THEN [l EXCEPT !.heatmap_data = Append(@, row), !.row = <<>>,
                       !.j = 1, !.i = @ + 1, !.n_cells = @ + 1]
        ELSE [l EXCEPT !.heatmap_data = Append(@, row), !.row = <<>>,
                       !.pc = "render", !.n_cells = @ + 1]

\* Variant: the inner loop stops one volatility short
CellStepShort(l) ==
    LET res == black_scholes(l.spot_prices[l.i], l.K, l.T, l.r,
                             l.volatilities[l.j], l.option_type)
        row == Append(l.row, res)
    IN  IF res.tag = "raise"
        THEN [l EXCEPT !.pc = "raised", !.err = res, !.n_cells = @ + 1]
        ELSE IF l.j < Len(l.volatilities) - 1
        THEN [l EXCEPT !.row = row, !.j = @ + 1, !.n_cells = @ + 1]
        ELSE IF l.i < Len(l.spot_prices)
        THEN [l EXCEPT !.heatmap_data = Append(@, row), !.row = <<>>,
                       !.j = 1, !.i = @ + 1, !.n_cells = @ + 1]
        ELSE [l EXCEPT !.heatmap_data = Append(@, row), !.row = <<>>,
                       !.pc = "render", !.n_cells = @ + 1]

\* One cell of
\*   [[black_scholes(spot, K, T, r, vol, option_type) for vol in volatilities]
\*    for spot in spot_prices]
\* i is the position of the outer loop (spot), j of the inner loop (vol); a
\* finished inner list is appended to the outer list.
CellStep(l) ==
    LET res == black_scholes(l.spot_prices[l.i], l.K, l.T, l.r,
                             l.volatilities[l.j], l.option_type)
        row == Append(l.row, res)
    IN  IF res.tag = "raise"
        THEN [l EXCEPT !.pc = "raised", !.err = res, !.n_cells = @ + 1]
        ELSE IF l.j < Len(l.volatilities)
        THEN [l EXCEPT !.row = row, !.j = @ + 1, !.n_cells = @ + 1]
        ELSE IF l.i < Len(l.spot_prices)
        THEN [l EXCEPT !.heatmap_data = Append(@, row), !.row = <<>>,
                       !.j = 1, !.i = @ + 1, !.n_cells = @ + 1]
        ELSE [l EXCEPT !.heatmap_data = Append(@, row), !.row = <<>>,
                       !.pc = "render", !.n_cells = @ + 1]

\* One inner list: the cells of the current spot, one after the other
RECURSIVE RowStep(_)
RowStep(l) ==
    LET m == CellStep(l)
    IN  IF m.pc = "sweep" /\ m.i = l.i THEN RowStep(m) ELSE m

\* fig = go.Figure(data=go.Heatmap(z=heatmap_data, x=volatilities, y=spot_prices))
\* greeks_text = "\n".join([f"{key}: {value:.4f}" for key, value in greeks.items()])
\* return f"{option_price:.2f}", greeks_text, fig
RenderStep(l) ==
    [l EXCEPT !.pc = "done",
              !.out =
                  [tag |-> "returned",
                   price |-> Format(l.option_price, 2),
                   greeks |-> [k \in 1..Len(l.greeks.items) |->
                                 [key |-> l.greeks.items[k].key,
                                  text |-> Format(l.greeks.items[k].value, 4)]],
                   figure |-> [tag |-> "heatmap", z |-> l.heatmap_data,
                               x |-> l.volatilities, y |-> l.spot_prices]]]

(***************************************************************************)
(* Actions                                                                 *)
(***************************************************************************)
Init ==
    /\ req = [q \in Threads |-> IdleFrame]
    /\ globals = [app_title |-> "Black-Scholes Option Pricing"]
    /\ direct = Unset

Ended(l) == l.pc \in {"done", "raised"}

\* A worker takes a request, one of the set A: the callback is called in a
\* fresh frame
Start(q, A) ==
    /\ req[q].pc = "idle"
    /\ \E a \in A : req' = [req EXCEPT ![q] = Enter(a)]
    /\ UNCHANGED <<globals, direct>>

\* The response (the three outputs, or the error) has been sent and the frame
\* is dropped
Finish(q) ==
    /\ Ended(req[q])
    /\ req' = [req EXCEPT ![q] = IdleFrame]
    /\ UNCHANGED <<globals, direct>>

Check(q) ==
    /\ req[q].pc = "check"
    /\ req' = [req EXCEPT ![q] = CheckStep(@)]
    /\ UNCHANGED <<globals, direct>>

\* Variant: the headline price is kept in a module-level name and reused
PriceMemo(q) ==
    /\ req[q].pc = "price"
    /\ IF "memo" \in DOMAIN globals
       THEN /\ req' = [req EXCEPT ![q] =
                          [@ EXCEPT !.pc = "greeks",
                                    !.option_price = globals.memo,
                                    !.n_price = @ + 1]]
            /\ UNCHANGED globals
       ELSE /\ req' = [req EXCEPT ![q] = PriceStep(@)]
            /\ globals' =
                  IF PriceStep(req[q]).pc = "greeks"
                  THEN [app_title |-> globals.app_title,
                        memo |-> PriceStep(req[q]).option_price]
                  ELSE globals
    /\ UNCHANGED direct

Price(q) ==
    /\ req[q].pc = "price"
    /\ req' = [req EXCEPT ![q] = PriceStep(@)]
    /\ UNCHANGED <<globals, direct>>

Greeks(q) ==
    /\ req[q].pc = "greeks"
    /\ req' = [req EXCEPT ![q] = GreeksStep(@)]
    /\ UNCHANGED <<globals, direct>>

Axes(q) ==
    /\ req[q].pc = "axes"
    /\ req' = [req EXCEPT ![q] = AxesStep(@)]
    /\ UNCHANGED <<globals, direct>>

Cell(q) ==
    /\ req[q].pc = "sweep"
    /\ req' = [req EXCEPT ![q] = CellStep(@)]
    /\ UNCHANGED <<globals, direct>>

Row(q) ==
    /\ req[q].pc = "sweep"
    /\ req' = [req EXCEPT ![q] = RowStep(@)]
    /\ UNCHANGED <<globals, direct>>

Render(q) ==
    /\ req[q].pc = "render"
    /\ req' = [req EXCEPT ![q] = RenderStep(@)]
    /\ UNCHANGED <<globals, direct>>

\* A direct call of black_scholes
CallBlackScholes ==
    /\ direct.tag = "unset"
    /\ \E a \in CoreArgs :
          direct' = [tag |-> "called", fn |-> "black_scholes", args |-> a,
                     result |-> black_scholes(a.S, a.K, a.T, a.r, a.sigma,
                                              a.option_type)]
    /\ UNCHANGED <<req, globals>>

\* A direct call of calculate_greeks
CallGreeks ==
    /\ direct.tag = "unset"
    /\ \E a \in CoreArgs :
          direct' = [tag |-> "called", fn |-> "calculate_greeks", args |-> a,
                     result |-> calculate_greeks(a.S, a.K, a.T, a.r, a.sigma)]
    /\ UNCHANGED <<req, globals>>

\* The caller drops the result
Discard ==
    /\ direct.tag # "unset"
    /\ direct' = Unset
    /\ UNCHANGED <<req, globals>>

(***************************************************************************)
(* Spec: one worker serves one request after the other, cell by cell.      *)
(***************************************************************************)
Next ==
    \/ Start(1, Inputs)
    \/ Check(1)
    \/ Price(1)
    \/ Greeks(1)
    \/ Axes(1)
    \/ Cell(1)
    \/ Render(1)
    \/ Finish(1)

Spec == Init /\ [][Next]_vars

\* A callback that has been entered keeps running: the interpreter executes
\* its next statement.  Nothing obliges the browser to send a request.
Step(q) ==
    Check(q) \/ Price(q) \/ Greeks(q) \/ Axes(q) \/ Cell(q) \/ Render(q)

FairSpec == Spec /\ WF_vars(Step(1))

(***************************************************************************)
(* ParSpec: two workers serve requests at the same time, their steps       *)
(* interleaved in any order.  The cells of one inner list are one step.    *)
(***************************************************************************)
ParNext ==
    \E q \in Threads :
        \/ Start(q, ParInputs)
        \/ Check(q)
        \/ Price(q)
        \/ Greeks(q)
        \/ Axes(q)
        \/ Row(q)
        \/ Render(q)
        \/ Finish(q)

ParSpec == Init /\ [][ParNext]_vars

(***************************************************************************)
(* CoreSpec: the two core functions called directly                        *)
(***************************************************************************)
CoreNext ==
    \/ CallBlackScholes
    \/ CallGreeks
    \/ Discard

CoreSpec == Init /\ [][CoreNext]_vars

(***************************************************************************)
(* Vocabulary of the properties                                            *)
(***************************************************************************)
Complete(l) == ~NoneIn(<<l.S, l.K, l.T, l.r, l.sigma>>)

ValidType(l) == l.option_type \in {"call", "put"}

\* the callback has got past the None check of this request
Computing(l) == l.pc \notin {"idle", "check"}

NoOutput(l) ==
    /\ l.out.tag = "unset"
    /\ l.option_price.tag = "unset"
    /\ l.greeks.tag = "unset"
    /\ l.n_greeks = 0
    /\ l.n_cells = 0
    /\ l.heatmap_data = <<>>
    /\ l.row = <<>>

HasAxes(l) == l.pc \in {"sweep", "render"}

\* twice the first sample is the base, twice the last is three times the base
Spans(axis, base) ==
    /\ Len(axis) = NumSamples
    /\ 2 * axis[1].n = base.n
    /\ 2 * axis[NumSamples].n = 3 * base.n

EvenlySpaced(axis) ==
    \A i \in 1..(Len(axis) - 2) :
        axis[i + 1].n - axis[i].n = axis[i + 2].n - axis[i + 1].n

Ascending(axis) ==
    \A i \in 1..(Len(axis) - 1) : axis[i].n <= axis[i + 1].n

StrictlyAscending(axis) ==
    \A i \in 1..(Len(axis) - 1) : axis[i].n < axis[i + 1].n

StrictlyDescending(axis) ==
    \A i \in 1..(Len(axis) - 1) : axis[i].n > axis[i + 1].n

Constant(axis) ==
    \A i \in 1..(Len(axis) - 1) : axis[i].n = axis[i + 1].n

SquareGrid(l) ==
    /\ Len(l.heatmap_data) = NumSamples
    /\ \A i \in 1..NumSamples : Len(l.heatmap_data[i]) = NumSamples

Ordered(axis, base) ==
    /\ base.n > 0 => StrictlyAscending(axis)
    /\ base.n = 0 => Constant(axis)
    /\ base.n < 0 => StrictlyDescending(axis)

NonPositive(a) == a.S.n <= 0 \/ a.K.n <= 0 \/ a.T.n <= 0 \/ a.sigma.n <= 0

ChecksType(d) == d.fn = "black_scholes" /\ d.args.option_type \notin {"call", "put"}

PlainZeroStrike(a) == a.S.tag = "py" /\ a.K.n = 0

EightKeys ==
    <<"Delta Call", "Delta Put", "Gamma", "Vega",
      "Theta Call", "Theta Put", "Rho Call", "Rho Put">>

SameNumbers(l, m) ==
    <<l.S, l.K, l.T, l.r, l.sigma>> = <<m.S, m.K, m.T, m.r, m.sigma>>

SameInputs(l, m) == SameNumbers(l, m) /\ l.option_type = m.option_type

SoloStep(l) ==
    CASE l.pc = "check" -> CheckStep(l)
      [] l.pc = "price" -> PriceStep(l)
      [] l.pc = "greeks" -> GreeksStep(l)
      [] l.pc = "axes" -> AxesStep(l)
      [] l.pc = "sweep" -> RowStep(l)
      [] l.pc = "render" -> RenderStep(l)
      [] OTHER -> l

RECURSIVE Run(_)
Run(l) == IF Ended(l) THEN l ELSE Run(SoloStep(l))

InputsOf(l) ==
    [S |-> l.S, K |-> l.K, T |-> l.T, r |-> l.r, sigma |-> l.sigma,
     option_type |-> l.option_type]

RunAlone(a) == Run(Enter(a))

\* the term v was computed with the request's K, T and r
OwnTerm(v, l) == v.K = l.K.n /\ v.T = l.T.n /\ v.r = l.r.n

OwnValues(l) ==
    /\ l.option_price.tag = "np" =>
          /\ OwnTerm(l.option_price, l)
          /\ l.option_price.S = l.S.n
          /\ l.option_price.sigma = l.sigma.n
          /\ l.option_price.f = l.option_type
    /\ l.greeks.tag = "dict" =>
          \A k \in 1..Len(l.greeks.items) :
              /\ OwnTerm(l.greeks.items[k].value, l)
              /\ l.greeks.items[k].value.S = l.S.n
              /\ l.greeks.items[k].value.sigma = l.sigma.n
    /\ l.spot_prices # <<>> =>
          /\ Spans(l.spot_prices, l.S)
          /\ Spans(l.volatilities, l.sigma)
    /\ l.heatmap_data # <<>> =>
          LET i == Len(l.heatmap_data)
          IN  \A j \in 1..Len(l.heatmap_data[i]) :
                  /\ OwnTerm(l.heatmap_data[i][j], l)
                  /\ l.heatmap_data[i][j].f = l.option_type
                  /\ l.heatmap_data[i][j].S = l.spot_prices[i].n
                  /\ l.heatmap_data[i][j].sigma = l.volatilities[j].n

Eligible(l) == Complete(l) /\ ValidType(l) /\ l.K.n # 0

Calls(l) == <<l.n_price, l.n_greeks, l.n_cells>>

PipelineOrder ==
    \A q \in Threads :
        LET l == req[q]
        IN  (Eligible(l) /\ l.pc # "idle") =>
                /\ l.pc \in {"check", "price", "greeks", "axes", "sweep",
                             "render", "done"}
                /\ l.pc \in {"check", "price"} => Calls(l) = <<0, 0, 0>>
                /\ l.pc = "greeks" => Calls(l) = <<1, 0, 0>>
                /\ l.pc = "axes" => Calls(l) = <<1, 1, 0>>
                /\ l.pc = "sweep" =>
                      /\ l.i \in 1..NumSamples
                      /\ l.j \in 1..NumSamples
                      /\ Len(l.heatmap_data) = l.i - 1
                      /\ Len(l.row) = l.j - 1
                      /\ Calls(l) = <<1, 1, (l.i - 1) * NumSamples + (l.j - 1)>>
                      /\ l.j > 1 =>
                            /\ l.row[l.j - 1].S = l.spot_prices[l.i].n
                            /\ l.row[l.j - 1].sigma = l.volatilities[l.j - 1].n
                /\ l.pc \in {"render", "done"} =>
                      Calls(l) = <<1, 1, NumSamples * NumSamples>>
                /\ l.pc = "done" =>
                      /\ l.err.tag = "unset"
                      /\ l.out.tag = "returned"
                      /\ l.out.price = Format(l.option_price, 2)
                      /\ l.out.figure.tag = "heatmap"

PipelineFinished(l) ==
    /\ l.pc = "done"
    /\ Calls(l) = <<1, 1, NumSamples * NumSamples>>
    /\ l.out.tag = "returned"

C2_AsClaimed ==
    \A q \in Threads :
        LET l == req[q]
        IN  /\ (~Complete(l) \/ l.option_type = NoType) =>
                  /\ l.err.tag = "unset"
                  /\ l.n_price = 0
                  /\ l.n_greeks = 0
                  /\ l.n_cells = 0
                  /\ Ended(l) => (l.pc = "done" /\ l.out = Placeholder)
            /\ (l.n_price + l.n_greeks + l.n_cells > 0) =>
                  (Complete(l) /\ l.option_type # NoType)

(***************************************************************************)
(* C3: for every request with a valid option type that builds the surface, *)
(* and all i, j in 0..49, grid[i][j] is black_scholes(spot_axis[i], K, T,  *)
(* r, vol_axis[j], option_type) with the request's K, T, r and option      *)
(* type; the heatmap gets the grid as z, the volatility axis as x and the  *)
(* spot axis as y, the very sequences the grid was computed from.          *)
(***************************************************************************)
C3_GridAligned ==
    \A q \in Threads :
        LET l == req[q]
        IN  /\ l.pc = "render" =>
                  /\ Len(l.heatmap_data) = NumSamples
                  /\ \A i \in 1..NumSamples :
                        /\ Len(l.heatmap_data[i]) = NumSamples
                        /\ \A j \in 1..NumSamples :
                              l.heatmap_data[i][j] =
                                  black_scholes(l.spot_prices[i], l.K, l.T, l.r,
                                                l.volatilities[j], l.option_type)
            /\ (l.pc = "done" /\ l.out.figure.tag = "heatmap") =>
                  /\ ValidType(l)
                  /\ l.out.figure.y = l.spot_prices
                  /\ l.out.figure.x = l.volatilities
                  /\ \A i \in 1..NumSamples : \A j \in 1..NumSamples :
                        l.out.figure.z[i][j] =
                            black_scholes(l.out.figure.y[i], l.K, l.T, l.r,
                                          l.out.figure.x[j], l.option_type)

C3_Witness ==
    \E q \in Threads :
        /\ req[q].pc = "done"
        /\ req[q].out.figure.tag = "heatmap"
        /\ req[q].option_type = "put"
        /\ req[q].out.figure.z[1][NumSamples] # req[q].out.figure.z[NumSamples][1]
        /\ req[q].out.figure.z[1][NumSamples].S = req[q].out.figure.y[1].n
        /\ req[q].out.figure.z[1][NumSamples].sigma
              = req[q].out.figure.x[NumSamples].n

(***************************************************************************)
(* C4 as stated: for every request that reaches the surface sweep both     *)
(* axes have exactly 50 samples, from 0.5 times to 1.5 times the base      *)
(* input (S, sigma), evenly spaced and in ascending order, and the grid is *)
(* 50 by 50.                                                               *)
(***************************************************************************)
C4_AsClaimed ==
    \A q \in Threads :
        LET l == req[q]
        IN  HasAxes(l) =>
                /\ Spans(l.spot_prices, l.S)
                /\ Spans(l.volatilities, l.sigma)
                /\ EvenlySpaced(l.spot_prices)
                /\ EvenlySpaced(l.volatilities)
                /\ Ascending(l.spot_prices)
                /\ Ascending(l.volatilities)
                /\ l.pc = "render" => SquareGrid(l)

(***************************************************************************)
(* C4 amended: for every request that reaches the surface sweep both axes  *)
(* have exactly 50 samples, from 0.5 times to 1.5 times the base input,    *)
(* evenly spaced, and the grid is 50 by 50; an axis is in ascending order  *)
(* when its base input is positive, constant when the base input is 0 and  *)
(* in descending order when the base input is negative.                    *)
(***************************************************************************)
C4_Axes ==
    \A q \in Threads :
        LET l == req[q]
        IN  HasAxes(l) =>
                /\ l.spot_prices[1].tag = "np"
                /\ Spans(l.spot_prices, l.S)
                /\ Spans(l.volatilities, l.sigma)
                /\ EvenlySpaced(l.spot_prices)
                /\ EvenlySpaced(l.volatilities)
                /\ Ordered(l.spot_prices, l.S)
                /\ Ordered(l.volatilities, l.sigma)
                /\ l.pc = "render" => SquareGrid(l)

C4_Witness ==
    \E q \in Threads :
        /\ req[q].pc = "render"
        /\ req[q].S.n > 0
        /\ req[q].sigma.n < 0
        /\ StrictlyAscending(req[q].spot_prices)
        /\ StrictlyDescending(req[q].volatilities)
        /\ SquareGrid(req[q])

C7_GreeksReport ==
    \A q \in Threads :
        LET l == req[q]
        IN  l.greeks.tag = "dict" =>
                /\ Len(l.greeks.items) = 8
                /\ \A k \in 1..8 : l.greeks.items[k].key = EightKeys[k]
                /\ \A k \in 1..8 : l.greeks.items[k].value.f = EightKeys[k]
                /\ \A p \in Threads :
                      (req[p].greeks.tag = "dict" /\ SameNumbers(l, req[p])) =>
                          req[p].greeks = l.greeks
                /\ (l.pc = "done") =>
                      /\ Len(l.out.greeks) = 8
                      /\ \A k \in 1..8 : l.out.greeks[k].key = EightKeys[k]

C7_Witness ==
    /\ req[1].option_type = "call"
    /\ req[2].option_type = "put"
    /\ SameNumbers(req[1], req[2])
    /\ req[1].greeks.tag = "dict"
    /\ req[2].greeks.tag = "dict"
    /\ req[1].greeks.items[3].key = "Gamma"
    /\ req[1].greeks.items[3] = req[2].greeks.items[3]
    /\ req[1].greeks.items[4] = req[2].greeks.items[4]

=============================================================================
